---------------------------- MODULE Spec2Model ----------------------------
(***************************************************************************)
(* Model of the analytics helpers of src/routes/faculty.js:                *)
(*   generateCourseAnalytics, calculateAverageAttendance,                   *)
(*   calculateAssignmentCompletion, generatePerformanceDistribution and     *)
(*   calculateWeeklyEngagement.                                             *)
(*                                                                         *)
(* The records loaded for a request (attendance sessions, roster,          *)
(* assignments with their submissions, the instructor's courses) are the   *)
(* state; every helper is one action that evaluates the helper on those    *)
(* records and stores what it returned in `last`.  A run loads one         *)
(* collection of records and calls one helper on it, any number of times.  *)
(*                                                                         *)
(* JavaScript numbers that come out of a division are kept as exact        *)
(* fractions (num/den) or as the two non-finite outcomes NaN and Infinity. *)
(* Time is counted in whole seconds (the source counts milliseconds; every *)
(* timestamp of the model is a whole second, so the floor of a difference  *)
(* divided by one week is the same in both units).                         *)
(***************************************************************************)
EXTENDS Integers, Sequences, FiniteSets

VARIABLES
    attendance,   \* course.attendance: sequence of sessions, a session is the sequence of its students' statuses
    students,     \* course.students: sequence of student documents [_id]
    assignments,  \* course.assignments: sequence of assignments, an assignment is the sequence of its submissions
    courses,      \* the dashboard's courses: sequence of [hasStudents, students]
    loaded,       \* the four collections above as the data layer handed them over
    now,          \* the wall clock (seconds), as last read
    last,         \* the most recent helper call: [fn, result, ...]
    before,       \* the call right before `last` when it was a call of the same helper, else NoCall
    helper        \* the helper the caller of this run invokes (any number of times)

vars == <<attendance, students, assignments, courses, loaded, now, last, before, helper>>

inputs == <<attendance, students, assignments, courses>>

---------------------------------------------------------------------------
(* Bounds of the model *)

MaxSessions == 2

MaxRoster == 2

MaxAssignments == 2

MaxSubmissions == 2

MaxCourses == 2

MaxDrift == 1

---------------------------------------------------------------------------
(* Small helpers *)

RECURSIVE SumSeq(_)
SumSeq(s) == IF Len(s) = 0 THEN 0 ELSE Head(s) + SumSeq(Tail(s))

RECURSIVE Flatten(_)
Flatten(ss) == IF Len(ss) = 0 THEN <<>> ELSE Head(ss) \o Flatten(Tail(ss))

SeqsUpTo(S, n) == UNION {[1..k -> S] : k \in 0..n}

(* JavaScript numbers produced by a division of two non-negative integers *)
Finite(n, d) == [kind |-> "finite", num |-> n, den |-> d]

NaN == [kind |-> "NaN", num |-> 0, den |-> 0]

Infinity == [kind |-> "Infinity", num |-> 1, den |-> 0]

Zero == Finite(0, 1)

\* a / b for integers a >= 0, b >= 0: 0/0 is NaN, a/0 is Infinity
JsDiv(a, b) == IF b # 0 THEN Finite(a, b) ELSE IF a = 0 THEN NaN ELSE Infinity

\* x * 100
JsTimes100(x) == IF x.kind = "finite" THEN Finite(100 * x.num, x.den) ELSE x

\* x <= c for an integer c: false for NaN and for Infinity
JsLeq(x, c) == x.kind = "finite" /\ x.num <= c * x.den

NoCall == [fn |-> "none"]

---------------------------------------------------------------------------
(* calculateAverageAttendance *)

Statuses == {"present", "absent"}

\* record.students.filter(s => s.status === 'present').length
PresentCount(record) == Cardinality({i \in DOMAIN record : record[i] = "present"})

\* attendance.reduce((total, record) => total + <present of record>, 0)
PresentTotal(att) == SumSeq([i \in DOMAIN att |-> PresentCount(att[i])])

\* calculateAverageAttendance without the early return of line 217
calculateAverageAttendanceUnguarded(att) == JsTimes100(JsDiv(PresentTotal(att), Len(att) * (IF Len(att) = 0 THEN 0 ELSE Len(att[1]))))

calculateAverageAttendance(att) ==
    IF Len(att) = 0 THEN Zero
    ELSE JsTimes100(JsDiv(PresentTotal(att), Len(att) * Len(att[1])))

CallAverageAttendance ==
    /\ helper = "calculateAverageAttendance"
    /\ last' = [fn |-> "calculateAverageAttendance", result |-> calculateAverageAttendance(attendance)]
    /\ before' = IF last.fn = "calculateAverageAttendance" THEN last ELSE NoCall
    /\ UNCHANGED <<attendance, students, assignments, courses, loaded, now, helper>>

---------------------------------------------------------------------------
(* calculateAssignmentCompletion *)

\* Student identities stand for ObjectId strings; they are numbered from 101
\* so that an identity is never mistaken for an array position.
StudentIds == {101, 102}

\* The keys of studentCompletions in insertion order: each student in the
\* order of the first submission met by the two nested forEach loops.
RECURSIVE KeyOrder(_)
KeyOrder(subs) ==
    IF Len(subs) = 0 THEN <<>>
    ELSE LET front == SubSeq(subs, 1, Len(subs) - 1)
             keys == KeyOrder(front)
             s == subs[Len(subs)].student
         IN IF \E i \in DOMAIN keys : keys[i] = s THEN keys ELSE Append(keys, s)

\* studentCompletions[student] after the loops: one increment per submission
CompletedCount(asgs, student) ==
    LET subs == Flatten(asgs)
    IN Cardinality({i \in DOMAIN subs : subs[i].student = student})

\* Object.values(studentCompletions).map(completed => (completed / totalAssignments) * 100)
calculateAssignmentCompletion(asgs, studs) ==
    LET totalAssignments == Len(asgs)
        keys == KeyOrder(Flatten(asgs))
    IN [i \in DOMAIN keys |-> JsTimes100(JsDiv(CompletedCount(asgs, keys[i]), totalAssignments))]

\* calculateAssignmentCompletion walking assignments.reverse(), which reverses in place
CallAssignmentCompletionReversing ==
    /\ helper = "calculateAssignmentCompletion"
    /\ last' = [fn |-> "calculateAssignmentCompletion", result |-> calculateAssignmentCompletion(assignments, students)]
    /\ before' = IF last.fn = "calculateAssignmentCompletion" THEN last ELSE NoCall
    /\ assignments' = [i \in DOMAIN assignments |-> assignments[Len(assignments) + 1 - i]]
    /\ UNCHANGED <<attendance, students, courses, loaded, now, helper>>

CallAssignmentCompletion ==
    /\ helper = "calculateAssignmentCompletion"
    /\ last' = [fn |-> "calculateAssignmentCompletion", result |-> calculateAssignmentCompletion(assignments, students)]
    /\ before' = IF last.fn = "calculateAssignmentCompletion" THEN last ELSE NoCall
    /\ UNCHANGED <<attendance, students, assignments, courses, loaded, now, helper>>

---------------------------------------------------------------------------
(* generatePerformanceDistribution *)

Buckets == {"0-20", "21-40", "41-60", "61-80", "81-100"}

EmptyDistribution == [b \in Buckets |-> 0]

\* assignment.submissions.find(s => s.student.toString() === student._id.toString()):
\* the position of the first submission of the student, 0 when there is none
FindSubmission(assignment, student) ==
    IF \E i \in DOMAIN assignment : assignment[i].student = student
    THEN CHOOSE i \in DOMAIN assignment :
             /\ assignment[i].student = student
             /\ \A j \in 1..(i - 1) : assignment[j].student # student
    ELSE 0

\* submission ? submission.totalScore : 0
ScoreOf(assignment, student) ==
    LET i == FindSubmission(assignment, student)
    IN IF i = 0 THEN 0 ELSE assignment[i].totalScore

\* scores.reduce((a, b) => a + b, 0)
ScoreSum(asgs, student) == SumSeq([a \in DOMAIN asgs |-> ScoreOf(asgs[a], student)])

\* scores.reduce(...) / scores.length
AvgScore(asgs, student) == JsDiv(ScoreSum(asgs, student), Len(asgs))

\* the chain with < in place of <=
BucketStrict(avgScore) ==
    IF avgScore.kind = "finite" /\ avgScore.num < 20 * avgScore.den THEN "0-20"
    ELSE IF avgScore.kind = "finite" /\ avgScore.num < 40 * avgScore.den THEN "21-40"
    ELSE IF avgScore.kind = "finite" /\ avgScore.num < 60 * avgScore.den THEN "41-60"
    ELSE IF avgScore.kind = "finite" /\ avgScore.num < 80 * avgScore.den THEN "61-80"
    ELSE "81-100"

\* the if / else-if chain of lines 259-263
Bucket(avgScore) ==
    IF JsLeq(avgScore, 20) THEN "0-20"
    ELSE IF JsLeq(avgScore, 40) THEN "21-40"
    ELSE IF JsLeq(avgScore, 60) THEN "41-60"
    ELSE IF JsLeq(avgScore, 80) THEN "61-80"
    ELSE "81-100"

\* students.forEach(student => { ... distribution[bucket]++ })
RECURSIVE Distribute(_, _, _)
Distribute(asgs, studs, distribution) ==
    IF Len(studs) = 0 THEN distribution
    ELSE LET b == Bucket(AvgScore(asgs, Head(studs)))
         IN Distribute(asgs, Tail(studs), [distribution EXCEPT ![b] = @ + 1])

generatePerformanceDistribution(asgs, studs) == Distribute(asgs, studs, EmptyDistribution)

CallPerformanceDistribution ==
    /\ helper = "generatePerformanceDistribution"
    /\ last' = [fn |-> "generatePerformanceDistribution", result |-> generatePerformanceDistribution(assignments, students)]
    /\ before' = IF last.fn = "generatePerformanceDistribution" THEN last ELSE NoCall
    /\ UNCHANGED <<attendance, students, assignments, courses, loaded, now, helper>>

---------------------------------------------------------------------------
(* calculateWeeklyEngagement *)

DayLen == 24 * 60 * 60

\* 7 * 24 * 60 * 60 * 1000 milliseconds, in seconds
WeekLen == 7 * DayLen

\* fourWeeksAgo.setDate(fourWeeksAgo.getDate() - 28), in seconds
FourWeeks == 28 * DayLen

\* the clock when the run starts
Now0 == 6 * WeekLen

\* the clock advances by at most MaxDrift seconds over a run
MaxNow == Now0 + MaxDrift

Reverse(s) == [i \in DOMAIN s |-> s[Len(s) + 1 - i]]

\* populate({path: 'assignments', match: {'submissions.submittedAt': {$gte: fourWeeksAgo}}}):
\* the assignments with at least one submission not older than fourWeeksAgo
RECURSIVE PopulateAssignments(_, _)
PopulateAssignments(asgs, fourWeeksAgo) ==
    IF Len(asgs) = 0 THEN <<>>
    ELSE LET rest == PopulateAssignments(Tail(asgs), fourWeeksAgo)
         IN IF \E i \in DOMAIN Head(asgs) : Head(asgs)[i].submittedAt >= fourWeeksAgo
            THEN <<Head(asgs)>> \o rest
            ELSE rest

\* Math.floor((new Date() - submission.submittedAt) / (7 * 24 * 60 * 60 * 1000))
WeekIndex(at, t) == (t - at) \div WeekLen

\* weeklyData after the loops: Array(4).fill(0), then weeklyData[weekIndex]++
\* for every weekIndex in 0..3 (position k + 1 holds weeklyData[k])
WeeklyData(indices) == [k \in 1..4 |-> Cardinality({i \in DOMAIN indices : indices[i] = k - 1})]

\* The clock readings of one call: `called` is the new Date() of line 270,
\* readings[i] the new Date() of line 286 for the i-th submission met; the
\* clock never runs backwards.
ClockReadings(called, n) == {r \in [1..n -> called..MaxNow] : \A i \in 1..(n - 1) : r[i] <= r[i + 1]}

CallWeeklyEngagement ==
    /\ helper = "calculateWeeklyEngagement"
    /\ \E called \in now..MaxNow :
           LET fourWeeksAgo == called - FourWeeks
               subs == Flatten(PopulateAssignments(assignments, fourWeeksAgo))
           IN \E readings \in ClockReadings(called, Len(subs)) :
               LET indices == [i \in DOMAIN subs |-> WeekIndex(subs[i].submittedAt, readings[i])]
               IN /\ last' = [fn |-> "calculateWeeklyEngagement",
                              result |-> Reverse(WeeklyData(indices)),
                              called |-> called,
                              seen |-> [i \in DOMAIN subs |-> [submittedAt |-> subs[i].submittedAt, weekIndex |-> indices[i]]]]
                  /\ now' = IF Len(subs) = 0 THEN called ELSE readings[Len(subs)]
                  /\ before' = IF last.fn = "calculateWeeklyEngagement" THEN last ELSE NoCall
                  /\ UNCHANGED <<attendance, students, assignments, courses, loaded, helper>>

---------------------------------------------------------------------------
(* generateCourseAnalytics *)

\* for (const course of courses) analytics.totalStudents += course.students.length:
\* reading .length of a missing roster throws a TypeError out of the loop
RECURSIVE RollUp(_, _)
RollUp(cs, totalStudents) ==
    IF Len(cs) = 0 THEN [outcome |-> "returned", totalStudents |-> totalStudents]
    ELSE IF ~Head(cs).hasStudents THEN [outcome |-> "TypeError", totalStudents |-> totalStudents]
    ELSE RollUp(Tail(cs), totalStudents + Len(Head(cs).students))

generateCourseAnalytics(cs) == RollUp(cs, 0)

CallCourseAnalytics ==
    /\ helper = "generateCourseAnalytics"
    /\ last' = [fn |-> "generateCourseAnalytics", result |-> generateCourseAnalytics(courses)]
    /\ before' = IF last.fn = "generateCourseAnalytics" THEN last ELSE NoCall
    /\ UNCHANGED <<attendance, students, assignments, courses, loaded, now, helper>>

---------------------------------------------------------------------------
(* The records a request can have loaded *)

Rosters == {r \in SeqsUpTo(StudentIds, Cardinality(StudentIds)) : \A i, j \in DOMAIN r : r[i] = r[j] => i = j}

Scores == {0, 20, 21, 60, 100}

\* ages at Now0: a day in the future, 1 day, 1 second short of 1 week, 15 days,
\* 1 second short of 4 weeks, 30 days
SubmissionTimes == {Now0 + DayLen, Now0 - DayLen, Now0 - WeekLen + 1, Now0 - 15 * DayLen, Now0 - FourWeeks + 1, Now0 - 30 * DayLen}

\* submissions that differ in the student only
PlainSubmissions == [student : StudentIds, totalScore : {0}, submittedAt : {Now0 - DayLen}]

\* submissions that differ in the score: any score for student 101, full marks for student 102
ScoredSubmissions == [student : {101}, totalScore : Scores, submittedAt : {Now0 - DayLen}] \cup [student : {102}, totalScore : {100}, submittedAt : {Now0 - DayLen}]

TimedSubmissions == [student : {101}, totalScore : {0}, submittedAt : SubmissionTimes]

\* subs cut into n assignments: owner[i] is the assignment of the i-th submission
Split(subs, n, owner) ==
    [a \in 1..n |->
        LET mine == {i \in DOMAIN subs : owner[i] = a}
        IN IF mine = {} THEN <<>>
           ELSE SubSeq(subs, CHOOSE i \in mine : \A j \in mine : i <= j, CHOOSE i \in mine : \A j \in mine : j <= i)]

Owners(subs, n) == {o \in [DOMAIN subs -> 1..n] : \A i \in 1..(Len(subs) - 1) : o[i] <= o[i + 1]}

\* every collection of at most MaxAssignments assignments holding at most
\* MaxSubmissions submissions in all
AssignmentCollections(Subs) ==
    UNION {UNION {{Split(subs, n, o) : o \in Owners(subs, n)} : n \in 0..MaxAssignments} : subs \in SeqsUpTo(Subs, MaxSubmissions)}

Sessions == SeqsUpTo(Statuses, MaxRoster)

CourseRecords == [hasStudents : {TRUE}, students : Rosters] \cup [hasStudents : {FALSE}, students : {<<>>}]

\* Every run loads one collection of records and calls one helper on it; the
\* records that helper does not read are left empty (a submission's fields it
\* does not read are held fixed).
InitAttendance ==
    /\ helper = "calculateAverageAttendance"
    /\ attendance \in SeqsUpTo(Sessions, MaxSessions)
    /\ students = <<>> /\ assignments = <<>> /\ courses = <<>>

InitSubmitters ==
    /\ helper = "calculateAssignmentCompletion"
    /\ students \in Rosters
    /\ assignments \in AssignmentCollections(PlainSubmissions)
    /\ attendance = <<>> /\ courses = <<>>

InitScores ==
    /\ helper = "generatePerformanceDistribution"
    /\ students \in Rosters
    /\ assignments \in AssignmentCollections(ScoredSubmissions)
    /\ attendance = <<>> /\ courses = <<>>

InitTimes ==
    /\ helper = "calculateWeeklyEngagement"
    /\ assignments \in AssignmentCollections(TimedSubmissions)
    /\ attendance = <<>> /\ students = <<>> /\ courses = <<>>

InitCourses ==
    /\ helper = "generateCourseAnalytics"
    /\ courses \in SeqsUpTo(CourseRecords, MaxCourses)
    /\ attendance = <<>> /\ students = <<>> /\ assignments = <<>>

Init ==
    /\ InitAttendance \/ InitSubmitters \/ InitScores \/ InitTimes \/ InitCourses
    /\ loaded = inputs
    /\ now = Now0
    /\ last = NoCall
    /\ before = NoCall

Next ==
    \/ CallAverageAttendance
    \/ CallAssignmentCompletion
    \/ CallPerformanceDistribution
    \/ CallWeeklyEngagement
    \/ CallCourseAnalytics

Spec == Init /\ [][Next]_vars

---------------------------------------------------------------------------
(* The claims *)

\* C1: calculateAverageAttendance returns exactly 0 (a finite number, not NaN)
\* for every empty sequence of attendance sessions.
C1_EmptyAttendanceIsZero ==
    (last.fn = "calculateAverageAttendance" /\ Len(attendance) = 0)
        => (last.result.kind = "finite" /\ last.result.num = 0 /\ last.result.den # 0)

C1_Witness == last.fn = "calculateAverageAttendance" /\ Len(attendance) = 0

\* C2 (as claimed): for every non-empty sequence of sessions, empty rosters and
\* rosters of differing sizes included, calculateAverageAttendance returns a
\* finite percentage between 0 and 100.
C2_Claim_FinitePercentage ==
    (last.fn = "calculateAverageAttendance" /\ Len(attendance) > 0)
        => (last.result.kind = "finite" /\ 0 <= last.result.num /\ last.result.num <= 100 * last.result.den)

\* C3 (as claimed): with zero assignments generatePerformanceDistribution
\* returns the all-zero distribution for any roster.
C3_Claim_ZeroAssignmentsAllZero ==
    (last.fn = "generatePerformanceDistribution" /\ Len(assignments) = 0)
        => \A b \in Buckets : last.result[b] = 0

\* C4 (as claimed): within one call of calculateWeeklyEngagement two
\* submissions with the same submittedAt land in the same week bucket.
C4_Claim_SameTimeSameWeek ==
    last.fn = "calculateWeeklyEngagement"
        => \A i, j \in DOMAIN last.seen :
               last.seen[i].submittedAt = last.seen[j].submittedAt => last.seen[i].weekIndex = last.seen[j].weekIndex

\* the number of assignments the student has submitted, each counted once
AssignmentsSubmitted(asgs, student) == Cardinality({a \in DOMAIN asgs : \E i \in DOMAIN asgs[a] : asgs[a][i].student = student})

\* C5 (as claimed): an assignment with several submissions of one student
\* contributes exactly one to that student's count, so that every completion
\* percentage is (assignments submitted / assignments) * 100 and at most 100.
C5_Claim_OnePerAssignment ==
    last.fn = "calculateAssignmentCompletion"
        => LET keys == KeyOrder(Flatten(assignments))
           IN \A i \in DOMAIN last.result :
                  /\ last.result[i].kind = "finite"
                  /\ last.result[i].num * Len(assignments) = 100 * AssignmentsSubmitted(assignments, keys[i]) * last.result[i].den
                  /\ last.result[i].num <= 100 * last.result[i].den

Submitters(asgs) == {s \in StudentIds : \E a \in DOMAIN asgs : \E i \in DOMAIN asgs[a] : asgs[a][i].student = s}

\* C6 (as claimed): calculateAssignmentCompletion returns exactly one entry per
\* student who submitted, the entry identifying the student (the result maps
\* the student to the percentage) and carrying count / totalAssignments * 100;
\* a student without submissions has no entry.
C6_Claim_EntryPerStudent ==
    last.fn = "calculateAssignmentCompletion"
        => last.result = [s \in Submitters(assignments) |-> JsTimes100(JsDiv(CompletedCount(assignments, s), Len(assignments)))]

\* the roster positions whose student's score sum s satisfies lo * n < s <= hi * n,
\* that is lo < average <= hi, over the n assignments
InRange(lo, hi) ==
    {i \in DOMAIN students :
        /\ lo * Len(assignments) < ScoreSum(assignments, students[i])
        /\ ScoreSum(assignments, students[i]) <= hi * Len(assignments)}

\* C7: with at least one assignment, generatePerformanceDistribution counts
\* every roster student in exactly one bucket by the average over all
\* assignments (a missing submission is a 0), upper bounds inclusive:
\* average <= 20 in '0-20', <= 40 in '21-40', <= 60 in '41-60', <= 80 in
\* '61-80', above 80 in '81-100'; the counts sum to the roster size.
C7_BucketsByAverage ==
    (last.fn = "generatePerformanceDistribution" /\ Len(assignments) >= 1)
        => /\ last.result["0-20"] = Cardinality({i \in DOMAIN students : ScoreSum(assignments, students[i]) <= 20 * Len(assignments)})
           /\ last.result["21-40"] = Cardinality(InRange(20, 40))
           /\ last.result["41-60"] = Cardinality(InRange(40, 60))
           /\ last.result["61-80"] = Cardinality(InRange(60, 80))
           /\ last.result["81-100"] = Cardinality({i \in DOMAIN students : ScoreSum(assignments, students[i]) > 80 * Len(assignments)})
           /\ last.result["0-20"] + last.result["21-40"] + last.result["41-60"] + last.result["61-80"] + last.result["81-100"] = Len(students)

\* two assignments, a student whose average is exactly 40 (60 and 20) and one
\* without any submission
C7_Witness ==
    /\ last.fn = "generatePerformanceDistribution"
    /\ Len(assignments) = 2 /\ Len(students) = 2
    /\ ScoreSum(assignments, students[1]) = 80
    /\ \A a \in DOMAIN assignments : FindSubmission(assignments[a], students[2]) = 0
    /\ last.result["21-40"] = 1 /\ last.result["0-20"] = 1

\* C8 (as claimed): calculateWeeklyEngagement returns 4 counts, oldest week
\* first: position 3 - k (counted from 0) holds the number of submissions with
\* floor((now - submittedAt) / 7 days) = k, now being the time of the call;
\* older and future submissions are counted nowhere.
C8_Claim_WeekCounts ==
    last.fn = "calculateWeeklyEngagement"
        => LET subs == Flatten(assignments)
           IN /\ Len(last.result) = 4
              /\ \A k \in 0..3 :
                     last.result[4 - k] = Cardinality({i \in DOMAIN subs : WeekIndex(subs[i].submittedAt, last.called) = k})

\* C9 (as claimed): generateCourseAnalytics returns totalStudents, the sum of
\* the roster sizes; a course whose roster is missing adds zero and does not
\* abort the roll-up.
C9_Claim_RollUpSkipsMissing ==
    last.fn = "generateCourseAnalytics"
        => /\ last.result.outcome = "returned"
           /\ last.result.totalStudents = SumSeq([i \in DOMAIN courses |-> IF courses[i].hasStudents THEN Len(courses[i].students) ELSE 0])

Calculators == {"calculateAverageAttendance", "calculateAssignmentCompletion", "generatePerformanceDistribution", "calculateWeeklyEngagement"}

===========================================================================
